---- MODULE Spec2Model ----
(***************************************************************************)
(* Streaming-response pipeline of the Sonar / Cody terminal client:        *)
(*   - APIClient   (core/api.ts):  one abort controller handle, a timeout  *)
(*                 timer per request, chat / chatStream;                   *)
(*   - CodingAgent (core/agent.ts): the conversation log with its          *)
(*                 append / commit / rollback discipline;                  *)
(*   - CodeExtractor, sendMessage, processPendingFiles (Handler.ts): the   *)
(*                 incremental fenced-block extractor and the turn driver. *)
(*                                                                         *)
(* Text is a sequence of one-character strings.  Source indices are        *)
(* 0-based, the indices here are 1-based and 0 stands for "not found"      *)
(* (-1 in the source).                                                     *)
(***************************************************************************)
EXTENDS Integers, Sequences, FiniteSets, TLC

(***************************************************************************)
(* Bounds of the model                                                     *)
(***************************************************************************)
\* number of requests issued on one APIClient in a behaviour
MaxRequests == 3
\* number of calls of send / sendStream on one CodingAgent in a behaviour
MaxCalls == 2
\* number of deltas one stream may yield
MaxChunks == 3

(***************************************************************************)
(* Program constants                                                       *)
(***************************************************************************)
\* Handler.ts:595-596  retained scan window of the extractor
ScanWindow == 200
\* Handler.ts:623-625  characters held back while capturing
HoldBack == 10
\* Handler.ts:601,614  length of the closing fence
FenceLen == 3

(***************************************************************************)
(* Text helpers                                                            *)
(***************************************************************************)
\* \w of the regular expression: [A-Za-z0-9_]
WordChars ==
  {"a","b","c","d","e","f","g","h","i","j","k","l","m","n","o","p","q","r",
   "s","t","u","v","w","x","y","z","A","B","C","D","E","F","G","H","I","J",
   "K","L","M","N","O","P","Q","R","S","T","U","V","W","X","Y","Z","0","1",
   "2","3","4","5","6","7","8","9","_"}

\* the backtick character (U+0060), written as a token
Backtick == "BACKTICK"

\* the characters String.prototype.trim removes
Whitespace == {" ", "\n", "\t", "\r"}

\* s.slice(from - 1): the suffix starting at 1-based index from
SliceFrom(s, from) == SubSeq(s, from, Len(s))

\* s.slice(-n): the last n characters (all of s when it is shorter)
SliceLast(s, n) == IF Len(s) > n THEN SubSeq(s, Len(s) - n + 1, Len(s)) ELSE s

\* s.slice(0, -n): everything but the last n characters
SliceButLast(s, n) == IF Len(s) > n THEN SubSeq(s, 1, Len(s) - n) ELSE <<>>

\* s.trim()
Trim(s) ==
  LET keep == {i \in 1..Len(s) : s[i] \notin Whitespace}
  IN IF keep = {} THEN <<>>
     ELSE LET lo == CHOOSE i \in keep : \A j \in keep : i <= j
              hi == CHOOSE i \in keep : \A j \in keep : j <= i
          IN SubSeq(s, lo, hi)

\* buffer.indexOf of the fence: 1-based index of the first fence, 0 when absent
IndexOfFence(s) ==
  LET hits == {i \in 1..(Len(s) - (FenceLen - 1)) :
                 \A k \in 0..(FenceLen - 1) : s[i + k] = Backtick}
  IN IF hits = {} THEN 0 ELSE CHOOSE i \in hits : \A j \in hits : i <= j

\* end of the maximal run of \w characters starting at j (first index after it)
WordEnd(s, j) ==
  CHOOSE k \in j..(Len(s) + 1) :
    /\ \A m \in j..(k - 1) : s[m] \in WordChars
    /\ (k = Len(s) + 1 \/ s[k] \notin WordChars)

\* index of the first newline at or after p, 0 when there is none
LineEnd(s, p) ==
  LET nls == {n \in p..Len(s) : s[n] = "\n"}
  IN IF nls = {} THEN 0 ELSE CHOOSE n \in nls : \A m \in nls : n <= m

\* does /FENCE(\w+):([^\n]+)\n/ match with its first character at index i
OpenAt(s, i) ==
  /\ i + FenceLen - 1 <= Len(s)
  /\ \A k \in 0..(FenceLen - 1) : s[i + k] = Backtick
  /\ LET w == WordEnd(s, i + FenceLen)
     IN /\ w > i + FenceLen
        /\ w <= Len(s)
        /\ s[w] = ":"
        /\ LineEnd(s, w + 1) > w + 1

\* buffer.match(/FENCE(\w+):([^\n]+)\n/): the leftmost match.
\* last is the index of the newline that ends the match, path is group 2.
MatchOpen(s) ==
  LET starts == {i \in 1..Len(s) : OpenAt(s, i)}
  IN IF starts = {} THEN [found |-> FALSE, last |-> 0, path |-> <<>>]
     ELSE LET i == CHOOSE a \in starts : \A b \in starts : a <= b
              w == WordEnd(s, i + FenceLen)
              n == LineEnd(s, w + 1)
          IN [found |-> TRUE, last |-> n, path |-> SubSeq(s, w + 1, n - 1)]

(***************************************************************************)
(* CodeExtractor (Handler.ts:572-651)                                      *)
(* An artifact is [filename, content, turn]; turn records the sendMessage  *)
(* call whose extractor produced it (a history field, the source's         *)
(* PendingFile has fullPath and isNew instead, both read from the file     *)
(* system).                                                                *)
(***************************************************************************)
\* new CodeExtractor(dir) / reset(): all fields empty
NewExtractor(t) ==
  [buffer |-> <<>>, inBlock |-> FALSE, filename |-> <<>>, code |-> <<>>,
   extractedFiles |-> <<>>, turn |-> t]

\* the PendingFile pushed for the current block
Artifact(e, body) ==
  [filename |-> e.filename, content |-> Trim(body), turn |-> e.turn]

\* a scan that forgets every character it did not match
RetainNothing(buf) == <<>>

\* a scan that never shortens its buffer
RetainAll(buf) == buf

\* if (this.buffer.length > 200) this.buffer = this.buffer.slice(-200)
Retain(buf) ==
  IF Len(buf) > ScanWindow THEN SliceLast(buf, ScanWindow) ELSE buf

\* a close that leaves the text after the fence unexamined
NeverRefeed(buf) == FALSE

\* if (this.buffer.length > 0) this.process("")
ShouldRefeed(buf) == Len(buf) > 0

\* a capture that keeps one character back
HoldOne(buf) == IF Len(buf) > 1 THEN 1 ELSE Len(buf)

\* a capture that keeps no tail back
CommitAll(buf) == 0

\* the characters of the buffer kept uncommitted while no fence is found
HeldBack(buf) == IF Len(buf) > HoldBack THEN HoldBack ELSE Len(buf)

\* CodeExtractor.process(chunk)
RECURSIVE process(_, _)
process(e, chunk) ==
  LET buf == e.buffer \o chunk
  IN IF ~e.inBlock
     THEN LET m == MatchOpen(buf)
          IN IF m.found
             THEN [e EXCEPT !.inBlock = TRUE,
                            !.filename = Trim(m.path),
                            !.code = <<>>,
                            !.buffer = SliceFrom(buf, m.last + 1)]
             ELSE [e EXCEPT !.buffer = Retain(buf)]
     ELSE LET endIndex == IndexOfFence(buf)
          IN IF endIndex # 0
             THEN LET closed ==
                        [e EXCEPT
                           !.extractedFiles =
                              Append(@, Artifact(e, e.code \o SubSeq(buf, 1, endIndex - 1))),
                           !.buffer = SliceFrom(buf, endIndex + FenceLen),
                           !.inBlock = FALSE,
                           !.code = <<>>,
                           !.filename = <<>>]
                  IN IF ShouldRefeed(closed.buffer)
                     THEN process(closed, <<>>)
                     ELSE closed
             ELSE LET keep == HeldBack(buf)
                  IN [e EXCEPT !.code = @ \o SliceButLast(buf, keep),
                               !.buffer = SliceLast(buf, keep)]

\* CodeExtractor.flush(): the files it pushes onto pendingFiles
flush(e) ==
  IF e.inBlock /\ e.code # <<>>
  THEN Append(e.extractedFiles, Artifact(e, e.code \o e.buffer))
  ELSE e.extractedFiles

(***************************************************************************)
(* Data                                                                    *)
(***************************************************************************)
\* a call of the agent and the request it issues share one index
Turns == 1..MaxRequests

\* what the user types at the prompt
Prompts == {"p1", "p2"}

\* a reply is a sequence of pieces of text; a delta carries one or more
\* consecutive pieces
RECURSIVE Concat(_)
Concat(pieces) ==
  IF pieces = <<>> THEN <<>> ELSE Head(pieces) \o Concat(Tail(pieces))

\* the reply of the scenario of the specification, section 8
HelloReply ==
  <<"S", "u", "r", "e", "!", "\n",
    Backtick, Backtick, Backtick, "p", "y", "t", "h", "o", "n", ":",
    "h", "e", "l", "l", "o", ".", "p", "y", "\n",
    "p", "r", "i", "n", "t", "(", "\"", "h", "i", "\"", ")", "\n",
    Backtick, Backtick, Backtick, "\n", "D", "o", "n", "e", ".">>

HelloFile == <<"h", "e", "l", "l", "o", ".", "p", "y">>
HelloBody == <<"p", "r", "i", "n", "t", "(", "\"", "h", "i", "\"", ")">>

\* the scenario cut into text, opening line, body, closing fence and rest
HelloPieces ==
  <<SubSeq(HelloReply, 1, 6), SubSeq(HelloReply, 7, 25),
    SubSeq(HelloReply, 26, 37), SubSeq(HelloReply, 38, 40),
    SubSeq(HelloReply, 41, 46)>>

\* the scenario cut after every character
HelloChars == [i \in 1..Len(HelloReply) |-> <<HelloReply[i]>>]

\* replies the server may stream in a session: nothing, plain text, the
\* scenario ending inside its block, and the whole scenario
SessionReplies ==
  {<<>>, SubSeq(HelloPieces, 1, 1), SubSeq(HelloPieces, 1, 3), HelloPieces}

\* replies used when several requests overlap on one client
ShortReplies == {<<>>, <<<<"H", "i">>>>}

\* agent.ts:4-52,61  the system message
SystemMessage == [role |-> "system", content |-> <<"SYSTEM_PROMPT">>, id |-> 0]

\* failures of a request: non-2xx status (api.ts:136-139, 94-97), error
\* envelope in a stream line (api.ts:167-169), a rejected read or fetch, and
\* the AbortError raised once the request's signal is aborted
FailKinds == {"http", "protocol", "network", "abort"}

(***************************************************************************)
(* State                                                                   *)
(***************************************************************************)
VARIABLES
  conversationHistory,  \* CodingAgent.conversationHistory; id is the object identity
  pendingUserMessage,   \* CodingAgent.pendingUserMessage (0 = null, else the turn)
  abortController,      \* APIClient.abortController (0 = null, else the request)
  requests,             \* per request: its controller's signal and its timeout timer
  turns,                \* per call of send / sendStream: position and locals
  extractor,            \* the CodeExtractor of the running sendMessage
  pendingFiles,         \* Handler.ts:83
  offered,              \* history: files processPendingFiles took over, in order
  isFirstMessage,       \* Handler.ts:73
  conversationCount,    \* Handler.ts:74
  lastUserMessage,      \* Handler.ts:84 ("" = none)
  xText,                \* extractor harness: the reply under test
  xRest,                \* extractor harness: the part not yet fed
  xPhase,               \* extractor harness: "off", "feeding" or "flushed"
  xLast,                \* extractor harness: length of the delta fed last
  cmd,                  \* one line typed at the prompt and its dispatch
  run,                  \* one call of runCommand
  stream                \* one run of chatStream over a given response

agentVars == <<conversationHistory, pendingUserMessage>>
clientVars == <<abortController, requests>>
handlerVars ==
  <<extractor, pendingFiles, offered, isFirstMessage, conversationCount,
    lastUserMessage>>
harnessVars == <<xText, xRest, xPhase, xLast, stream, cmd, run>>
vars == <<agentVars, clientVars, turns, handlerVars, harnessVars>>

\* deltas is history: what the call has yielded to its caller, in order;
\* retried is history: the call was made by the /retry command
NewTurn ==
  [pc |-> "new", kind |-> "none", rest |-> <<>>, fullResponse |-> <<>>,
   nChunks |-> 0, outcome |-> "none", before |-> <<>>, deltas |-> <<>>,
   retried |-> FALSE]

NewRequest == [aborted |-> FALSE, timer |-> "unset"]

\* a call is in flight while it awaits the network or is suspended at its yield
InFlight(t) == turns[t].pc \in {"awaiting", "yielded"}
Idle == \A t \in Turns : ~InFlight(t)
Unused(t) == turns[t].pc = "new" /\ \A u \in Turns : u < t => turns[u].pc # "new"

\* no exception, nothing reported
NoError == [name |-> "", message |-> <<>>]
NoReport == [retry |-> FALSE, text |-> <<>>]

\* no line has been typed
NoCmd == [phase |-> "off", parts |-> <<>>, command |-> "", args |-> <<>>,
          branch |-> ""]

\* runCommand has not been called
NoResult == [success |-> FALSE, output |-> "", error |-> ""]
NoRun ==
  [phase |-> "off", resolved |-> FALSE, result |-> NoResult, resolutions |-> 0,
   timeoutId |-> "unset", killTimer |-> "unset", proc |-> "none",
   code |-> "none", killed |-> FALSE, errored |-> FALSE, signals |-> <<>>,
   stdout |-> "", stderr |-> "", timedOut |-> FALSE]

\* neither chat nor chatStream has been called: the locals of a run and its
\* outcome (result is what chat returns)
NoStream ==
  [phase |-> "off", call |-> "", resp |-> 0, rest |-> <<>>, pending |-> <<>>,
   buffer |-> <<>>, deltas |-> <<>>, carried |-> FALSE, kind |-> "none",
   err |-> NoError, report |-> NoReport, result |-> <<>>]

InitCommon ==
  /\ stream = NoStream
  /\ cmd = NoCmd
  /\ run = NoRun
  /\ conversationHistory = <<SystemMessage>>
  /\ pendingUserMessage = 0
  /\ abortController = 0
  /\ requests = [t \in Turns |-> NewRequest]
  /\ turns = [t \in Turns |-> NewTurn]
  /\ extractor = NewExtractor(0)
  /\ pendingFiles = <<>>
  /\ offered = <<>>
  /\ isFirstMessage = TRUE
  /\ conversationCount = 0
  /\ lastUserMessage = ""

Init ==
  /\ InitCommon
  /\ xText = <<>>
  /\ xRest = <<>>
  /\ xPhase = "off"
  /\ xLast = 0

(***************************************************************************)
(* CodingAgent (agent.ts:54-140): the log operations                       *)
(***************************************************************************)
\* a start of turn that appends nothing
PushLater(h, t, content) == h

\* conversationHistory.push(userMsg), agent.ts:66,84
PushUser(h, t, content) ==
  Append(h, [role |-> "user", content |-> content, id |-> t])

\* conversationHistory.push({role: "assistant", content}), agent.ts:70-73,97-100
PushAssistant(h, content) ==
  Append(h, [role |-> "assistant", content |-> content, id |-> 0])

\* conversationHistory.pop(), agent.ts:76
Pop(h) == IF Len(h) = 0 THEN h ELSE SubSeq(h, 1, Len(h) - 1)

\* a rollback that leaves the log as it is
RemoveUserMsgNoOp(h, t) == h

\* idx = indexOf(userMsg); if (idx !== -1) splice(idx, 1), agent.ts:102-105
RemoveUserMsg(h, t) ==
  LET found == {i \in 1..Len(h) : h[i].id = t}
  IN IF found = {} THEN h
     ELSE LET idx == CHOOSE i \in found : \A j \in found : i <= j
          IN SubSeq(h, 1, idx - 1) \o SubSeq(h, idx + 1, Len(h))

\* a finally block that keeps what a failed turn had received
StreamFinallyKeepPartial(h, t, success, full) ==
  IF full # <<>> THEN PushAssistant(h, full)
  ELSE IF ~success THEN RemoveUserMsg(h, t)
  ELSE h

\* a finally block that commits nothing
StreamFinallyNoCommit(h, t, success, full) ==
  IF ~success THEN RemoveUserMsg(h, t) ELSE h

\* the finally block of sendStream, agent.ts:95-108
StreamFinally(h, t, success, full) ==
  IF success /\ full # <<>> THEN PushAssistant(h, full)
  ELSE IF ~success THEN RemoveUserMsg(h, t)
  ELSE h

(***************************************************************************)
(* APIClient (api.ts:33-206): the controller handle and the timers         *)
(***************************************************************************)
\* controller.abort() on the controller the handle refers to, if any
SignalAbort(reqs, ctrl) ==
  IF ctrl # 0 THEN [reqs EXCEPT ![ctrl].aborted = TRUE] ELSE reqs

\* first lines of chat / chatStream, api.ts:66-70, 108-112:
\* this.abort(); new AbortController(); setTimeout(...)
StartRequest(reqs, ctrl, t) ==
  [SignalAbort(reqs, ctrl) EXCEPT ![t] = [aborted |-> FALSE, timer |-> "armed"]]

\* clearTimeout(timeoutId), api.ts:102, 203
ClearTimer(reqs, t) == [reqs EXCEPT ![t].timer = "cleared"]

\* chat / chatStream up to the fetch: the handle and the request's timer
ClientStart(t) ==
  /\ requests' = StartRequest(requests, abortController, t)
  /\ abortController' = t

\* this.abortController = null, api.ts:103, 204: whatever the handle holds
FinallyHandle(ctrl, t) == 0

\* finally of chat / chatStream, api.ts:101-104, 202-205
ClientFinally(t) ==
  /\ requests' = ClearTimer(requests, t)
  /\ abortController' = FinallyHandle(abortController, t)

\* a timer callback that cancels nothing
TimerCallbackIdle(reqs, ctrl, t) == [reqs EXCEPT ![t].timer = "fired"]

\* the timer callback, api.ts:70,112: () => this.abortController?.abort()
TimerCallback(reqs, ctrl, t) ==
  [SignalAbort(reqs, ctrl) EXCEPT ![t].timer = "fired"]

(***************************************************************************)
(* Steps of one call of CodingAgent.send / sendStream together with the    *)
(* APIClient request it issues.  These constrain the agent, the client and *)
(* the call; the callers below add what the caller does in the same step.  *)
(***************************************************************************)
\* the locals of a call that has just started
Started(k, reply, h) ==
  [pc |-> "awaiting", kind |-> k, rest |-> reply, fullResponse |-> <<>>,
   nChunks |-> 0, outcome |-> "none", before |-> h, deltas |-> <<>>,
   retried |-> FALSE]

\* sendStream up to its first await (agent.ts:82-90, api.ts:108-134), or
\* send up to its await (agent.ts:65-69, api.ts:66-92); reply is what the
\* server is going to answer
AgentStart(t, k, content, reply) ==
  /\ Unused(t)
  /\ conversationHistory' = PushUser(conversationHistory, t, content)
  /\ pendingUserMessage' = IF k = "stream" THEN t ELSE pendingUserMessage
  /\ ClientStart(t)
  /\ turns' = [turns EXCEPT ![t] = Started(k, reply, conversationHistory)]

\* a suspended read resolves only while the signal is not aborted; a
\* generator resumed from its yield may still hold lines of the last chunk
\* read (api.ts:156-186)
CanProceed(t) ==
  \/ turns[t].pc = "awaiting" /\ ~requests[t].aborted
  \/ turns[t].pc = "yielded"

\* the text of the delta made of the next n pieces of the reply
Chunk(t, n) == Concat(SubSeq(turns[t].rest, 1, n))

\* the locals of a call are gone once it has ended; its position and its
\* outcome are kept as history
Ended(tr, p, o) ==
  [tr EXCEPT !.pc = p, !.outcome = o, !.rest = <<>>, !.fullResponse = <<>>,
             !.nChunks = 0, !.before = <<>>, !.deltas = <<>>]

\* an accumulator that keeps the last chunk only
AccumulateLast(full, chunk) == chunk

\* fullResponse += chunk, agent.ts:91
Accumulate(full, chunk) == full \o chunk

\* one delta: api.ts:172 yield content; agent.ts:91-92 fullResponse += chunk;
\* yield chunk.  nextPc is where the consumer leaves the generator.
AgentYield(t, n, nextPc) ==
  /\ turns[t].kind = "stream"
  /\ CanProceed(t)
  /\ turns[t].nChunks < MaxChunks
  /\ n \in 1..Len(turns[t].rest)
  /\ turns' = [turns EXCEPT
                 ![t].fullResponse = Accumulate(@, Chunk(t, n)),
                 ![t].deltas = Append(@, Chunk(t, n)),
                 ![t].rest = SliceFrom(@, n + 1),
                 ![t].nChunks = @ + 1,
                 ![t].pc = nextPc]
  /\ UNCHANGED <<agentVars, clientVars>>

\* graceful end: the sentinel or the end of the body (api.ts:150,162), the
\* client's finally (api.ts:202-205), then agent.ts:94-108 with success = true
AgentEnd(t) ==
  /\ turns[t].kind = "stream"
  /\ CanProceed(t)
  /\ turns[t].rest = <<>>
  /\ conversationHistory' =
       StreamFinally(conversationHistory, t, TRUE, turns[t].fullResponse)
  /\ pendingUserMessage' = 0
  /\ ClientFinally(t)
  /\ turns' = [turns EXCEPT ![t] = Ended(@, "ok", "ok")]

\* which failure can happen where
CanFail(t, f) ==
  CASE f = "abort" -> requests[t].aborted
    [] f = "http" -> /\ turns[t].pc = "awaiting"
                     /\ ~requests[t].aborted
                     /\ turns[t].nChunks = 0
    [] f = "protocol" -> CanProceed(t)
    [] f = "network" -> turns[t].pc = "awaiting" /\ ~requests[t].aborted

\* the stream throws: the client's finally (api.ts:199-205), then
\* agent.ts:95-108 with success = false
AgentFail(t, f) ==
  /\ turns[t].kind = "stream"
  /\ InFlight(t)
  /\ CanFail(t, f)
  /\ conversationHistory' =
       StreamFinally(conversationHistory, t, FALSE, turns[t].fullResponse)
  /\ pendingUserMessage' = 0
  /\ ClientFinally(t)
  /\ turns' = [turns EXCEPT ![t] = Ended(@, "failed", f)]

\* chat resolves (api.ts:99-104), then agent.ts:70-74
ChatResolve(t) ==
  /\ turns[t].kind = "send"
  /\ turns[t].pc = "awaiting"
  /\ ~requests[t].aborted
  /\ conversationHistory' =
       PushAssistant(conversationHistory, Concat(turns[t].rest))
  /\ ClientFinally(t)
  /\ turns' = [turns EXCEPT ![t] = Ended(@, "ok", "ok")]
  /\ UNCHANGED <<pendingUserMessage, handlerVars, harnessVars>>

\* chat rejects (api.ts:94-97, 101-104), then agent.ts:75-78
ChatReject(t, f) ==
  /\ turns[t].kind = "send"
  /\ turns[t].pc = "awaiting"
  /\ f # "protocol"
  /\ CanFail(t, f)
  /\ conversationHistory' = Pop(conversationHistory)
  /\ ClientFinally(t)
  /\ turns' = [turns EXCEPT ![t] = Ended(@, "failed", f)]
  /\ UNCHANGED <<pendingUserMessage, handlerVars, harnessVars>>

\* a rejection caused by an aborted signal is delivered as a microtask,
\* before any timer callback runs
MicrotasksDrained ==
  \A r \in Turns : ~(turns[r].pc = "awaiting" /\ requests[r].aborted)

\* the timeout of request t elapses (api.ts:70, 112)
TimerFire(t) ==
  /\ requests[t].timer = "armed"
  /\ MicrotasksDrained
  /\ requests' = TimerCallback(requests, abortController, t)
  /\ UNCHANGED <<abortController, agentVars, turns, handlerVars, harnessVars>>

(***************************************************************************)
(* The session: the prompt loop of Handler.ts:1073-1114 drives one turn at *)
(* a time through sendMessage (Handler.ts:692-724); agent.send is called   *)
(* directly.                                                               *)
(***************************************************************************)
\* Handler.ts:695-699  the first message carries the project structure
FullMessage(m, first) == IF first THEN <<"Project structure", m>> ELSE <<m>>

\* Handler.ts:1095-1098, 692-707: a prompt is read and sendMessage runs up to
\* the first await of the stream
SendMessage(t, m, reply) ==
  /\ Idle
  /\ t <= MaxCalls
  /\ AgentStart(t, "stream", FullMessage(m, isFirstMessage), reply)
  /\ lastUserMessage' = m
  /\ isFirstMessage' = FALSE
  /\ extractor' = NewExtractor(t)
  /\ UNCHANGED <<pendingFiles, offered, conversationCount, harnessVars>>

\* Handler.ts:707-710: one chunk is displayed and fed to the extractor, and
\* the loop asks for the next one
StreamDelta(t, n) ==
  /\ turns[t].pc = "awaiting"
  /\ AgentYield(t, n, "awaiting")
  /\ extractor' = process(extractor, Chunk(t, n))
  /\ UNCHANGED <<pendingFiles, offered, isFirstMessage, conversationCount,
                 lastUserMessage, harnessVars>>

\* Handler.ts:717-723: flush, then processPendingFiles (Handler.ts:653-661)
\* takes over whatever is pending
StreamEnd(t) ==
  /\ turns[t].pc = "awaiting"
  /\ AgentEnd(t)
  /\ LET files == pendingFiles \o flush(extractor)
     IN /\ offered' = offered \o files
        /\ pendingFiles' = <<>>
  /\ extractor' = NewExtractor(extractor.turn)
  /\ conversationCount' = conversationCount + 1
  /\ UNCHANGED <<isFirstMessage, lastUserMessage, harnessVars>>

\* Handler.ts:711-715: the catch block flushes and rethrows
StreamFail(t, f) ==
  /\ turns[t].pc = "awaiting"
  /\ AgentFail(t, f)
  /\ pendingFiles' = pendingFiles \o flush(extractor)
  /\ extractor' = NewExtractor(extractor.turn)
  /\ UNCHANGED <<offered, isFirstMessage, conversationCount, lastUserMessage,
                 harnessVars>>

\* agent.send(m) up to its await
Send(t, m, reply) ==
  /\ Idle
  /\ t <= MaxCalls
  /\ AgentStart(t, "send", <<m>>, reply)
  /\ UNCHANGED <<handlerVars, harnessVars>>

\* a reset that keeps the log
NotCleared(h) == h

\* agent.clearHistory(): the log it leaves, agent.ts:123
Cleared(h) == <<SystemMessage>>

\* the /retry command, Handler.ts:801-811: clearHistory, isFirstMessage =
\* true, then sendMessage(lastUserMessage) up to the first await of the
\* stream (Handler.ts:692-707, agent.ts:82-90)
Retry(t, reply) ==
  /\ Idle
  /\ t <= MaxCalls
  /\ Unused(t)
  /\ lastUserMessage # ""
  /\ conversationHistory' =
       PushUser(Cleared(conversationHistory), t,
                FullMessage(lastUserMessage, TRUE))
  /\ pendingUserMessage' = t
  /\ ClientStart(t)
  /\ turns' = [turns EXCEPT
                 ![t] = [Started("stream", reply, Cleared(conversationHistory))
                           EXCEPT !.retried = TRUE]]
  /\ isFirstMessage' = FALSE
  /\ extractor' = NewExtractor(t)
  /\ UNCHANGED <<pendingFiles, offered, conversationCount, lastUserMessage,
                 harnessVars>>

\* the /clear command, Handler.ts:790-795 with agent.ts:122-125
Clear ==
  /\ Idle
  /\ conversationHistory' = <<SystemMessage>>
  /\ pendingUserMessage' = 0
  /\ isFirstMessage' = TRUE
  /\ conversationCount' = 0
  /\ UNCHANGED <<clientVars, turns, extractor, pendingFiles, offered,
                 lastUserMessage, harnessVars>>

Next ==
  \/ \E t \in Turns, m \in Prompts, r \in SessionReplies : SendMessage(t, m, r)
  \/ \E t \in Turns, n \in 1..Len(HelloPieces) : StreamDelta(t, n)
  \/ \E t \in Turns : StreamEnd(t)
  \/ \E t \in Turns, f \in FailKinds : StreamFail(t, f)
  \/ \E t \in Turns, m \in Prompts, r \in ShortReplies : Send(t, m, r)
  \/ \E t \in Turns : ChatResolve(t)
  \/ \E t \in Turns, f \in FailKinds : ChatReject(t, f)
  \/ \E t \in Turns : TimerFire(t)
  \/ Clear
  \/ \E t \in Turns, r \in SessionReplies : Retry(t, r)

Spec == Init /\ [][Next]_vars

\* the session under the scheduling of the runtime: a timer that stays armed
\* fires (setTimeout, api.ts:70,112), and a fetch or read whose signal is
\* aborted rejects (api.ts:133, 149)
Fairness ==
  \A t \in Turns :
    /\ WF_vars(TimerFire(t))
    /\ WF_vars(StreamFail(t, "abort"))

\* the turns of the prompt loop alone
NextTurn ==
  \/ \E t \in Turns, r \in SessionReplies : SendMessage(t, "p1", r)
  \/ \E t \in Turns, n \in 1..Len(HelloPieces) : StreamDelta(t, n)
  \/ \E t \in Turns : StreamEnd(t)
  \/ \E t \in Turns, f \in FailKinds : StreamFail(t, f)
  \/ \E t \in Turns : TimerFire(t)

SpecLive == Init /\ [][NextTurn]_vars /\ Fairness

(***************************************************************************)
(* The scenario of section 8: one sendMessage turn whose reply is the      *)
(* scenario text, cut into deltas at arbitrary character offsets.          *)
(***************************************************************************)
NextHello ==
  \/ \E m \in Prompts : SendMessage(1, m, HelloChars)
  \/ \E n \in 1..Len(HelloReply) : StreamDelta(1, n)
  \/ StreamEnd(1)
  \/ \E f \in FailKinds : StreamFail(1, f)
  \/ TimerFire(1)

SpecHello == Init /\ [][NextHello]_vars

(***************************************************************************)
(* Direct use of one CodingAgent: calls of send and sendStream may overlap *)
(* (a generator stays suspended at its yield until its consumer asks for   *)
(* the next delta), and abort and clearHistory may be called at any time.  *)
(***************************************************************************)
\* agent.sendStream(m) is called and asked for its first delta
CallStream(t, m, reply) ==
  /\ t <= MaxCalls
  /\ AgentStart(t, "stream", <<m>>, reply)
  /\ UNCHANGED <<handlerVars, harnessVars>>

\* agent.send(m) is called
CallSend(t, m, reply) ==
  /\ t <= MaxCalls
  /\ AgentStart(t, "send", <<m>>, reply)
  /\ UNCHANGED <<handlerVars, harnessVars>>

\* the generator yields a delta and stays suspended
Yield(t, n) ==
  /\ AgentYield(t, n, "yielded")
  /\ UNCHANGED <<handlerVars, harnessVars>>

\* the consumer asks for the next delta and the generator awaits a read
Pull(t) ==
  /\ turns[t].pc = "yielded"
  /\ turns' = [turns EXCEPT ![t].pc = "awaiting"]
  /\ UNCHANGED <<agentVars, clientVars, handlerVars, harnessVars>>

\* the stream ends gracefully
End(t) ==
  /\ AgentEnd(t)
  /\ UNCHANGED <<handlerVars, harnessVars>>

\* the stream throws
Fail(t, f) ==
  /\ AgentFail(t, f)
  /\ UNCHANGED <<handlerVars, harnessVars>>

\* agent.abort(), agent.ts:111-113 with api.ts:58-63
Abort ==
  /\ abortController # 0
  /\ requests' = SignalAbort(requests, abortController)
  /\ abortController' = 0
  /\ UNCHANGED <<agentVars, turns, handlerVars, harnessVars>>

\* agent.clearHistory(), agent.ts:122-125
ClearHistory ==
  /\ conversationHistory # <<SystemMessage>>
  /\ conversationHistory' = <<SystemMessage>>
  /\ pendingUserMessage' = 0
  /\ UNCHANGED <<clientVars, turns, handlerVars, harnessVars>>

\* conversationHistory[0].content = SYSTEM_PROMPT + "\n\n" + addition, when
\* element 0 exists and is the system message (agent.ts:136-138)
WithAddition(h, addition) ==
  IF Len(h) >= 1 /\ h[1].role = "system"
    THEN [h EXCEPT ![1].content = <<"SYSTEM_PROMPT", "\n\n", addition>>]
    ELSE h

\* agent.updateSystemPrompt(addition), agent.ts:135-139
UpdateSystemPrompt(addition) ==
  /\ conversationHistory' = WithAddition(conversationHistory, addition)
  /\ conversationHistory' # conversationHistory
  /\ UNCHANGED <<pendingUserMessage, clientVars, turns, handlerVars,
                 harnessVars>>

NextConc ==
  \/ \E t \in Turns, r \in ShortReplies : CallStream(t, "p1", r)
  \/ \E t \in Turns, r \in ShortReplies : CallSend(t, "p1", r)
  \/ \E t \in Turns : Yield(t, 1)
  \/ \E t \in Turns : Pull(t)
  \/ \E t \in Turns : End(t)
  \/ \E t \in Turns, f \in {"network", "abort"} : Fail(t, f)
  \/ \E t \in Turns : ChatResolve(t)
  \/ \E t \in Turns, f \in {"network", "abort"} : ChatReject(t, f)
  \/ \E t \in Turns : TimerFire(t)
  \/ Abort
  \/ ClearHistory
  \/ UpdateSystemPrompt("rules")

SpecConc == Init /\ [][NextConc]_vars

(***************************************************************************)
(* Direct use of one APIClient: chat and chatStream are called while       *)
(* earlier requests are still in flight; no agent is involved.             *)
(***************************************************************************)
\* client.chat(messages) or client.chatStream(messages) runs up to its fetch
RequestStart(t, k, reply) ==
  /\ Unused(t)
  /\ ClientStart(t)
  /\ turns' = [turns EXCEPT ![t] = Started(k, reply, <<>>)]
  /\ UNCHANGED <<agentVars, handlerVars, harnessVars>>

\* chatStream yields a delta and stays suspended
RequestYield(t) ==
  /\ AgentYield(t, 1, "yielded")
  /\ UNCHANGED <<handlerVars, harnessVars>>

\* chat returns, or chatStream ends gracefully; the finally block runs
RequestEnd(t) ==
  /\ CanProceed(t)
  /\ turns[t].kind = "stream" => turns[t].rest = <<>>
  /\ ClientFinally(t)
  /\ turns' = [turns EXCEPT ![t] = Ended(@, "ok", "ok")]
  /\ UNCHANGED <<agentVars, handlerVars, harnessVars>>

\* chat or chatStream throws; the finally block runs
RequestFail(t, f) ==
  /\ InFlight(t)
  /\ CanFail(t, f)
  /\ ClientFinally(t)
  /\ turns' = [turns EXCEPT ![t] = Ended(@, "failed", f)]
  /\ UNCHANGED <<agentVars, handlerVars, harnessVars>>

NextClient ==
  \/ \E t \in Turns, k \in {"send", "stream"}, r \in ShortReplies :
        RequestStart(t, k, r)
  \/ \E t \in Turns : RequestYield(t)
  \/ \E t \in Turns : Pull(t)
  \/ \E t \in Turns : RequestEnd(t)
  \/ \E t \in Turns, f \in FailKinds : RequestFail(t, f)
  \/ \E t \in Turns : TimerFire(t)
  \/ Abort

SpecClient == Init /\ [][NextClient]_vars

(***************************************************************************)
(* The extractor alone: a reply drawn from ExtractTexts is fed to one      *)
(* CodeExtractor in chunks cut at arbitrary offsets, then flushed.         *)
(***************************************************************************)
\* a block with a short body, closed
ClosedShort ==
  <<Backtick, Backtick, Backtick, "p", "y", ":", "a", "\n", "x", "\n", Backtick, Backtick,
    Backtick>>

\* a block with a short body, never closed
OpenShort ==
  <<Backtick, Backtick, Backtick, "p", "y", ":", "a", "\n", "x">>

\* a block with a body longer than the hold-back, never closed
OpenLong ==
  <<Backtick, Backtick, Backtick, "p", "y", ":", "a", "\n", "0", "1", "2", "3",
    "4", "5", "6", "7", "8", "9", "a", "b">>

\* text, then two closed blocks
TwoBlocks ==
  <<"h", "i", "\n", Backtick, Backtick, Backtick, "p", "y", ":", "a", "\n", "x",
    "\n", Backtick, Backtick, Backtick, "\n", Backtick, Backtick, Backtick, "j", "s", ":", "b",
    "\n", "y", "\n", Backtick, Backtick, Backtick>>

\* no block at all
PlainText ==
  <<"n", "o", " ", "c", "o", "d", "e">>

\* text longer than the scan window before a block
PrefixLen == ScanWindow + 30
LongPrefix == [i \in 1..PrefixLen |-> IF i % 7 = 0 THEN Backtick ELSE "."]
AfterLongPrefix == LongPrefix \o ClosedShort

\* the same, the opening line being almost as long as the scan window
PathLen == ScanWindow - 10
LongPath == [i \in 1..PathLen |-> "f"]
LongOpening ==
  <<Backtick, Backtick, Backtick, "p", "y", ":">> \o LongPath \o <<"\n">>
LongLine ==
  LongPrefix \o LongOpening \o HelloBody \o <<"\n", Backtick, Backtick, Backtick>>

ExtractTexts ==
  {ClosedShort, OpenShort, OpenLong, TwoBlocks, PlainText, HelloReply}

ScanTexts == {AfterLongPrefix, LongLine}

InitExtract ==
  /\ InitCommon
  /\ xText \in ExtractTexts
  /\ xRest = xText
  /\ xPhase = "feeding"
  /\ xLast = 0

\* extractor.process(chunk) with the next n characters
Feed(n) ==
  /\ xPhase = "feeding"
  /\ n \in 1..Len(xRest)
  /\ extractor' = process(extractor, SubSeq(xRest, 1, n))
  /\ xRest' = SliceFrom(xRest, n + 1)
  /\ xLast' = n
  /\ UNCHANGED <<agentVars, clientVars, turns, pendingFiles, offered,
                 isFirstMessage, conversationCount, lastUserMessage, xText,
                 xPhase, stream, cmd, run>>

\* extractor.flush() once the whole reply has been fed (Handler.ts:629-642)
FlushAll ==
  /\ xPhase = "feeding"
  /\ xRest = <<>>
  /\ pendingFiles' = pendingFiles \o flush(extractor)
  /\ extractor' = NewExtractor(extractor.turn)
  /\ xPhase' = "flushed"
  /\ UNCHANGED <<agentVars, clientVars, turns, offered, isFirstMessage,
                 conversationCount, lastUserMessage, xText, xRest, xLast,
                 stream, cmd, run>>

NextExtract ==
  \/ \E n \in 1..Len(HelloReply) : Feed(n)
  \/ FlushAll

SpecExtract == InitExtract /\ [][NextExtract]_vars

(***************************************************************************)
(* Fence harness (Handler.ts:601-642): replies whose block bodies hold     *)
(* backticks, fed in chunks cut at arbitrary offsets, then flushed.        *)
(***************************************************************************)
\* a body with one and two backticks in it, longer than the hold-back,
\* never closed
TickBody ==
  <<Backtick, Backtick, Backtick, "p", "y", ":", "a", "\n", "a", Backtick, "b",
    Backtick, Backtick, "c", "\n", "0", "1", "2", "3", "4", "5", "6", "7", "8",
    "9", Backtick, Backtick>>

\* a body that ends with two backticks, closed by a fence of four, then text
FourTicks ==
  <<Backtick, Backtick, Backtick, "p", "y", ":", "a", "\n", "x", "y", Backtick,
    Backtick, "\n", Backtick, Backtick, Backtick, Backtick, "\n", "r", "e", "s",
    "t">>

\* two backticks right before the closing fence
FiveTicks ==
  <<Backtick, Backtick, Backtick, "p", "y", ":", "a", "\n", "0", "1", "2", "3",
    "4", "5", "6", "7", "8", "9", "a", "b", Backtick, Backtick, Backtick,
    Backtick, Backtick>>

FenceTexts == {TickBody, FourTicks, FiveTicks, HelloReply}

InitFence ==
  /\ InitCommon
  /\ xText \in FenceTexts
  /\ xRest = xText
  /\ xPhase = "feeding"
  /\ xLast = 0

SpecFence == InitFence /\ [][NextExtract]_vars

(***************************************************************************)
(* Scan harness (Handler.ts:584-599): replies whose text before the block  *)
(* is longer than the scan window, fed in deltas of a few sizes on either  *)
(* side of the window.                                                     *)
(***************************************************************************)
DeltaSizes ==
  {1, FenceLen, HoldBack + 1, ScanWindow - 1, ScanWindow, ScanWindow + 1}

InitScan ==
  /\ InitCommon
  /\ xText \in ScanTexts
  /\ xRest = xText
  /\ xPhase = "feeding"
  /\ xLast = 0

NextScan ==
  \/ \E n \in DeltaSizes : Feed(n)
  \/ FlushAll

SpecScan == InitScan /\ [][NextScan]_vars

(***************************************************************************)
(* APIClient.chatStream over one response (api.ts:107-206): the body       *)
(* arrives as network chunks of bytes cut at arbitrary offsets; the error  *)
(* it throws reaches the prompt loop, which reports it                     *)
(* (Handler.ts:1097-1110).  Bytes below 0x80 are written as the character  *)
(* they encode.                                                            *)
(***************************************************************************)
\* the two bytes of the UTF-8 encoding of U+00E9, and the character itself
LeadByte == "xC3"
ContByte == "xA9"
EAcute == "U+00E9"
\* what the decoder emits for a byte that is no character
Replacement == "U+FFFD"

\* the characters encoded by a sequence of bytes
RECURSIVE Utf8(_)
Utf8(bytes) ==
  LET high == {i \in 1..Len(bytes) : bytes[i] \in {LeadByte, ContByte}}
  IN IF high = {} THEN bytes
     ELSE LET i == CHOOSE j \in high : \A k \in high : j <= k
          IN IF /\ bytes[i] = LeadByte
                /\ i < Len(bytes)
                /\ bytes[i + 1] = ContByte
               THEN SubSeq(bytes, 1, i - 1) \o <<EAcute>>
                      \o Utf8(SliceFrom(bytes, i + 2))
               ELSE SubSeq(bytes, 1, i - 1) \o <<Replacement>>
                      \o Utf8(SliceFrom(bytes, i + 1))

\* decoder.decode(value, {stream: true}), api.ts:144,152: an incomplete
\* character at the end of a chunk is kept for the next call
Decode(pending, value) ==
  LET all == pending \o value
      held == IF all # <<>> /\ all[Len(all)] = LeadByte
              THEN <<LeadByte>> ELSE <<>>
  IN [text |-> Utf8(SubSeq(all, 1, Len(all) - Len(held))), pending |-> held]

\* s.startsWith(p)
StartsWith(s, p) == Len(s) >= Len(p) /\ SubSeq(s, 1, Len(p)) = p

\* s.includes(sub)
Includes(s, sub) ==
  \E i \in 1..(Len(s) - Len(sub) + 1) : SubSeq(s, i, i + Len(sub) - 1) = sub

\* buffer.split("\n"), api.ts:153
RECURSIVE Split(_)
Split(s) ==
  LET nl == {i \in 1..Len(s) : s[i] = "\n"}
  IN IF nl = {} THEN <<s>>
     ELSE LET i == CHOOSE j \in nl : \A k \in nl : j <= k
          IN <<SubSeq(s, 1, i - 1)>> \o Split(SliceFrom(s, i + 1))

\* an incomplete line that is dropped instead of being carried forward
PopNothing(lines) == <<>>

\* buffer = lines.pop() || "", api.ts:154
Pop1(lines) == lines[Len(lines)]

\* the decimal digits of a status code
RECURSIVE StatusText(_)
StatusText(n) ==
  LET digit == <<"0", "1", "2", "3", "4", "5", "6", "7", "8", "9">>
  IN IF n < 10 THEN <<digit[n + 1]>>
     ELSE StatusText(n \div 10) \o <<digit[(n % 10) + 1]>>

\* api.ts:160  the prefix of an event line
DataPrefix ==
  <<"d", "a", "t", "a", ":", " ">>

\* api.ts:162,191  the payload that ends the stream
DoneSentinel ==
  <<"[", "D", "O", "N", "E", "]">>

\* the JSON text of a content event up to its content, and after it
ContentOpen ==
  <<"{", "\"", "c", "h", "o", "i", "c", "e", "s", "\"", ":", "[", "{",
    "\"", "d", "e", "l", "t", "a", "\"", ":", "{", "\"", "c", "o", "n",
    "t", "e", "n", "t", "\"", ":", "\"">>
ContentClose ==
  <<"\"", "}", "}", "]", "}">>

\* the JSON text of an error envelope up to its message, and after it
ErrorOpen ==
  <<"{", "\"", "e", "r", "r", "o", "r", "\"", ":", "{", "\"", "m", "e",
    "s", "s", "a", "g", "e", "\"", ":", "\"">>
ErrorClose ==
  <<"\"", "}", "}">>

\* the JSON text of a non-streaming answer up to its content, and after it
MessageOpen ==
  <<"{", "\"", "c", "h", "o", "i", "c", "e", "s", "\"", ":", "[", "{",
    "\"", "m", "e", "s", "s", "a", "g", "e", "\"", ":", "{", "\"", "c",
    "o", "n", "t", "e", "n", "t", "\"", ":", "\"">>
MessageClose ==
  <<"\"", "}", "}", "]", "}">>

\* text is open, a string without quote or backslash, close
Wraps(text, open, close) ==
  /\ Len(text) >= Len(open) + Len(close)
  /\ SubSeq(text, 1, Len(open)) = open
  /\ SliceLast(text, Len(close)) = close
  /\ \A i \in (Len(open) + 1)..(Len(text) - Len(close)) :
       text[i] \notin {"\"", "\\", "\n", "\r"}

Inner(text, open, close) ==
  SubSeq(text, Len(open) + 1, Len(text) - Len(close))

\* JSON.parse(data), api.ts:165,178,193, and response.json(), api.ts:99, on
\* the texts a response of the model can hold: a content event, an error
\* envelope, a non-streaming answer, or text that is not JSON (SyntaxError).
\* hasError is parsed.error being truthy, message is parsed.error.message,
\* content is parsed.choices?.[0]?.delta?.content, reply is
\* data.choices[0]?.message?.content.
JSONParse(text) ==
  IF Wraps(text, ContentOpen, ContentClose)
    THEN [syntaxError |-> FALSE, hasError |-> FALSE, message |-> <<>>,
          content |-> Inner(text, ContentOpen, ContentClose),
          reply |-> <<>>]
  ELSE IF Wraps(text, ErrorOpen, ErrorClose)
    THEN [syntaxError |-> FALSE, hasError |-> TRUE,
          message |-> Inner(text, ErrorOpen, ErrorClose), content |-> <<>>,
          reply |-> <<>>]
  ELSE IF Wraps(text, MessageOpen, MessageClose)
    THEN [syntaxError |-> FALSE, hasError |-> FALSE, message |-> <<>>,
          content |-> <<>>,
          reply |-> Inner(text, MessageOpen, MessageClose)]
  ELSE [syntaxError |-> TRUE, hasError |-> FALSE, message |-> <<>>,
        content |-> <<>>, reply |-> <<>>]

\* JSON.stringify(parsed.error) of an envelope whose message is empty
StringifiedError ==
  <<"{", "\"", "m", "e", "s", "s", "a", "g", "e", "\"", ":", "\"", "\"",
    "}">>

\* parsed.error.message || JSON.stringify(parsed.error), api.ts:168,180
ErrorText(parsed) ==
  IF parsed.message # <<>> THEN parsed.message ELSE StringifiedError

\* what handling one line comes to: nothing, a delta, the end of the
\* stream, or an exception
Skip == [type |-> "skip", name |-> "", text |-> <<>>]
Delta(content) == [type |-> "delta", name |-> "", text |-> content]
Return == [type |-> "return", name |-> "", text |-> <<>>]
Throw(name, message) == [type |-> "throw", name |-> name, text |-> message]

\* the try block of a data line, api.ts:164-172
TryData(data) ==
  LET parsed == JSONParse(data)
  IN IF parsed.syntaxError THEN Throw("SyntaxError", <<>>)
     ELSE IF parsed.hasError THEN Throw("Error", ErrorText(parsed))
     ELSE IF parsed.content # <<>> THEN Delta(parsed.content)
     ELSE Skip

\* the try block of a line that starts with a brace, api.ts:177-181
TryBare(trimmed) ==
  LET parsed == JSONParse(trimmed)
  IN IF parsed.syntaxError THEN Throw("SyntaxError", <<>>)
     ELSE IF parsed.hasError THEN Throw("Error", ErrorText(parsed))
     ELSE Skip

\* a catch block that swallows every exception
CatchEverything(ev) == IF ev.type = "throw" THEN Skip ELSE ev

\* a catch block that lets every exception through
CatchNothing(ev) == ev

\* catch (e) { if (!(e instanceof SyntaxError)) throw e; }, api.ts:173-175,
\* 182-184
CatchSyntaxError(ev) ==
  IF ev.type = "throw" /\ ev.name = "SyntaxError" THEN Skip ELSE ev

\* a loop that does not know the sentinel
NeverSentinel(data) == FALSE

\* data === "[DONE]", api.ts:160
IsSentinel(data) == data = DoneSentinel

\* one line of the loop, api.ts:157-185
LineEvent(line) ==
  LET trimmed == Trim(line)
  IN IF trimmed = <<>> THEN Skip
     ELSE IF StartsWith(trimmed, DataPrefix)
       THEN LET data == SliceFrom(trimmed, Len(DataPrefix) + 1)
            IN IF IsSentinel(data) THEN Return
               ELSE CatchSyntaxError(TryData(data))
     ELSE IF StartsWith(trimmed, <<"{">>)
       THEN CatchSyntaxError(TryBare(trimmed))
     ELSE Skip

\* what is left in the buffer when the body ends, api.ts:189-198: any
\* exception is swallowed and an error envelope is not looked for
TrailingEvent(buffer) ==
  LET trimmed == Trim(buffer)
  IN IF /\ trimmed # <<>>
        /\ StartsWith(trimmed, DataPrefix)
        /\ SliceFrom(trimmed, Len(DataPrefix) + 1) # DoneSentinel
       THEN LET parsed ==
                  JSONParse(SliceFrom(trimmed, Len(DataPrefix) + 1))
            IN IF ~parsed.syntaxError /\ parsed.content # <<>>
                 THEN Delta(parsed.content)
                 ELSE Skip
       ELSE Skip

\* the lines of a chunk in order, api.ts:156-186: deltas are yielded until
\* the sentinel returns or an exception leaves the loop
RECURSIVE ProcessLines(_, _)
ProcessLines(lines, deltas) ==
  IF lines = <<>>
    THEN [deltas |-> deltas, end |-> "none", name |-> "", message |-> <<>>]
  ELSE LET ev == LineEvent(Head(lines))
       IN CASE ev.type = "return" ->
                 [deltas |-> deltas, end |-> "return", name |-> "",
                  message |-> <<>>]
            [] ev.type = "throw" ->
                 [deltas |-> deltas, end |-> "throw", name |-> ev.name,
                  message |-> ev.text]
            [] ev.type = "delta" ->
                 ProcessLines(Tail(lines), Append(deltas, ev.text))
            [] OTHER -> ProcessLines(Tail(lines), deltas)

\* the responses a server gives: a status and the lines of the body, each
\* with its terminator if it has one
ContentLine(content, eol) ==
  DataPrefix \o ContentOpen \o content \o ContentClose \o eol
ErrorLine(message, eol) ==
  DataPrefix \o ErrorOpen \o message \o ErrorClose \o eol
DoneLine == DataPrefix \o DoneSentinel \o <<"\n">>
\* a data line whose payload is cut short
NoiseLine(eol) ==
  DataPrefix \o SubSeq(ContentOpen, 1, 12) \o eol
TimeoutWord ==
  <<"t", "i", "m", "e", "o", "u", "t">>
GatewayTimeout ==
  <<"g", "a", "t", "e", "w", "a", "y", " ", "t", "i", "m", "e", "o", "u",
    "t">>
Overloaded ==
  <<"o", "v", "e", "r", "l", "o", "a", "d", "e", "d">>

Responses ==
  << \* two deltas, the second with a two-byte character and CR LF
     [status |-> 200,
      lines |-> <<ContentLine(<<"a">>, <<"\n">>),
                  ContentLine(<<LeadByte, ContByte>>, <<"\r", "\n">>),
                  DoneLine>>],
     \* a line that is not JSON between two deltas
     [status |-> 200,
      lines |-> <<ContentLine(<<"a">>, <<"\n">>), NoiseLine(<<"\n">>),
                  ContentLine(<<"b">>, <<"\n">>), DoneLine>>],
     \* an error envelope after a delta, terminated by a newline
     [status |-> 200,
      lines |-> <<ContentLine(<<"a">>, <<"\n">>),
                  ErrorLine(<<"b", "a", "d">>, <<"\n">>)>>],
     \* an error envelope after a delta, the body ending without newline
     [status |-> 200,
      lines |-> <<ContentLine(<<"a">>, <<"\n">>),
                  ErrorLine(<<"b", "a", "d">>, <<>>)>>],
     \* an error envelope without data prefix and without message
     [status |-> 200,
      lines |-> <<ErrorOpen \o ErrorClose \o <<"\n">>>>],
     \* a body that ends without sentinel and without newline
     [status |-> 200,
      lines |-> <<ContentLine(<<"a">>, <<"\n">>),
                  ContentLine(<<"b">>, <<>>)>>],
     \* a delta, then a line that is not JSON and has no newline
     [status |-> 200,
      lines |-> <<ContentLine(<<"a">>, <<"\n">>), NoiseLine(<<>>)>>],
     \* an error envelope whose message speaks of a timeout
     [status |-> 200,
      lines |-> <<ErrorLine(<<"u", "p", "s", "t", "r", "e", "a", "m", " ">>
                              \o TimeoutWord, <<"\n">>)>>],
     \* non-2xx answers
     [status |-> 504, lines |-> <<GatewayTimeout>>],
     [status |-> 500, lines |-> <<Overloaded>>],
     \* the answer to a request without streaming
     [status |-> 200,
      lines |-> <<MessageOpen \o <<"H", "i">> \o MessageClose>>],
     \* a delta and an error envelope after the sentinel
     [status |-> 200,
      lines |-> <<ContentLine(<<"a">>, <<"\n">>), DoneLine,
                  ContentLine(<<"z">>, <<"\n">>),
                  ErrorLine(<<"b", "a", "d">>, <<"\n">>)>>],
     \* an error envelope between deltas
     [status |-> 200,
      lines |-> <<ContentLine(<<"a">>, <<"\n">>),
                  ContentLine(<<"b">>, <<"\r", "\n">>),
                  ErrorLine(<<"b", "a", "d">>, <<"\n">>),
                  ContentLine(<<"z">>, <<"\n">>), DoneLine>>] >>

Body(r) == Concat(Responses[r].lines)

\* response.ok
Ok(status) == status \in 200..299

\* chatStream has been called and awaits its fetch, api.ts:108-134
Calling == [NoStream EXCEPT !.phase = "fetching"]

\* the generator has thrown; its locals are gone
Thrown(st, kind, name, message) ==
  [st EXCEPT !.phase = "thrown", !.kind = kind,
             !.err = [name |-> name, message |-> message],
             !.rest = <<>>, !.pending = <<>>, !.buffer = <<>>]

\* the generator has returned; its locals are gone
Returned(st) ==
  [st EXCEPT !.phase = "returned", !.rest = <<>>, !.pending = <<>>,
             !.buffer = <<>>]

\* an error message that leaves the body of the response out
ApiErrorMessageNoBody(status, text) ==
    <<"A", "P", "I", " ", "E", "r", "r", "o", "r", " ", "(">> \o StatusText(status)
    \o <<")">>

\* `API Error (${response.status}): ${error}`, api.ts:137-138
ApiErrorMessage(status, text) ==
    <<"A", "P", "I", " ", "E", "r", "r", "o", "r", " ", "(">> \o StatusText(status)
    \o <<")", ":", " ">> \o text

\* chat: the fetch resolves with a response of the given status and body,
\* api.ts:87-100
ChatRespond(st, r, status, body) ==
  IF ~Ok(status)
    THEN Thrown([st EXCEPT !.resp = r], "http", "Error",
                ApiErrorMessage(status, Utf8(body)))
    ELSE LET data == JSONParse(Utf8(body))
         IN IF data.syntaxError
              THEN Thrown([st EXCEPT !.resp = r], "parse", "SyntaxError",
                          <<>>)
              ELSE Returned([st EXCEPT !.resp = r, !.result = data.reply])

\* the fetch resolves with a response of the given status and body,
\* api.ts:129-145
Respond(st, r, status, body) ==
  IF ~Ok(status)
    THEN Thrown([st EXCEPT !.resp = r], "http", "Error",
                ApiErrorMessage(status, Utf8(body)))
    ELSE [st EXCEPT !.phase = "reading", !.resp = r, !.rest = body]

\* one read that delivers value, and the lines it completes, api.ts:149-186
ReadChunk(st, value) ==
  LET d == Decode(st.pending, value)
      lines == Split(st.buffer \o d.text)
      res == ProcessLines(SubSeq(lines, 1, Len(lines) - 1), st.deltas)
      st1 == [st EXCEPT !.pending = d.pending,
                        !.buffer = Pop1(lines),
                        !.deltas = res.deltas,
                        !.rest = SliceFrom(@, Len(value) + 1),
                        !.carried = @ \/ Pop1(lines) # <<>>]
  IN CASE res.end = "return" -> Returned(st1)
       [] res.end = "throw" -> Thrown(st1, "protocol", res.name, res.message)
       [] OTHER -> st1

\* the read that reports the end of the body, api.ts:150, 189-198
BodyEnd(st) ==
  LET ev == TrailingEvent(st.buffer)
  IN Returned([st EXCEPT !.deltas = IF ev.type = "delta"
                                     THEN Append(@, ev.text) ELSE @])

\* the message of the AbortError a fetch or a read rejects with
AbortMessage ==
  <<"T", "h", "i", "s", " ", "o", "p", "e", "r", "a", "t", "i", "o", "n",
    " ", "w", "a", "s", " ", "a", "b", "o", "r", "t", "e", "d">>

\* Handler.ts:1103
RetrySuggestion ==
  <<"R", "e", "q", "u", "e", "s", "t", " ", "t", "i", "m", "e", "d", " ",
    "o", "u", "t", ".", " ", "T", "r", "y", " ", "/", "r", "e", "t", "r",
    "y">>

\* the catch block of the prompt loop, Handler.ts:1099-1110; the error has
\* passed sendStream (agent.ts:95-108) and sendMessage (Handler.ts:711-715)
\* unchanged
Report(err) ==
  IF err.name = "AbortError" \/ Includes(err.message, TimeoutWord)
    THEN [retry |-> TRUE, text |-> RetrySuggestion]
    ELSE [retry |-> FALSE, text |-> err.message]

streamOthers ==
  <<agentVars, clientVars, turns, handlerVars, xText, xRest, xPhase, xLast,
    cmd, run>>

\* chat (api.ts:65-92) or chatStream (api.ts:107-134) is called
SseCall(k) ==
  /\ stream.phase = "off"
  /\ stream' = [Calling EXCEPT !.call = k]
  /\ UNCHANGED streamOthers

\* what a server answers to a request without streaming: a non-2xx status,
\* or a body that is one JSON text
ForChat(r) ==
  \/ ~Ok(Responses[r].status)
  \/ ~JSONParse(Utf8(Body(r))).syntaxError

\* the fetch of chat resolves, api.ts:87-100
ChatResponse(r) ==
  /\ stream.phase = "fetching"
  /\ stream.call = "chat"
  /\ ForChat(r)
  /\ stream' = ChatRespond(stream, r, Responses[r].status, Body(r))
  /\ UNCHANGED streamOthers

\* the fetch of chatStream resolves, api.ts:129-145
SseResponse(r) ==
  /\ stream.phase = "fetching"
  /\ stream.call = "chatStream"
  /\ stream' = Respond(stream, r, Responses[r].status, Body(r))
  /\ UNCHANGED streamOthers

\* a read resolves with the next n bytes of the body, api.ts:149-186
SseRead(n) ==
  /\ stream.phase = "reading"
  /\ n \in 1..Len(stream.rest)
  /\ stream' = ReadChunk(stream, SubSeq(stream.rest, 1, n))
  /\ UNCHANGED streamOthers

\* a read resolves with done, api.ts:150, 189-198
SseDone ==
  /\ stream.phase = "reading"
  /\ stream.rest = <<>>
  /\ stream' = BodyEnd(stream)
  /\ UNCHANGED streamOthers

\* the timer fires while the fetch or a read is pending, api.ts:112
SseTimeout ==
  /\ stream.phase \in {"fetching", "reading"}
  /\ stream' = Thrown(stream, "abort", "AbortError", AbortMessage)
  /\ UNCHANGED streamOthers

\* the prompt loop reports the failure, Handler.ts:1099-1110
SseReport ==
  /\ stream.phase = "thrown"
  /\ stream' = [stream EXCEPT !.phase = "reported",
                              !.report = Report(stream.err)]
  /\ UNCHANGED streamOthers

NextSSE ==
  \/ \E k \in {"chat", "chatStream"} : SseCall(k)
  \/ \E r \in 1..Len(Responses) : ChatResponse(r)
  \/ \E r \in 1..Len(Responses) : SseResponse(r)
  \/ \E n \in 1..Len(stream.rest) : SseRead(n)
  \/ SseDone
  \/ SseTimeout
  \/ SseReport

SpecSSE == Init /\ [][NextSSE]_vars

(***************************************************************************)
(* Commands (config.ts:69-148, 158-278; Handler.ts:748-935).  A line typed  *)
(* at the prompt is the sequence of its parts as the regular expression of *)
(* parseCommand cuts it; a part is its text in lower case and whether it   *)
(* was typed in upper case.                                                *)
(***************************************************************************)
\* commandAliases, config.ts:69-122
commandAliases ==
  ("/q" :> "/quit") @@ ("/e" :> "/exit") @@ ("/quit" :> "/quit") @@
  ("/exit" :> "/quit") @@ ("/h" :> "/help") @@ ("/?" :> "/help") @@
  ("/c" :> "/clear") @@ ("/cls" :> "/clear") @@ ("/hist" :> "/history") @@
  ("/cfg" :> "/config") @@ ("/settings" :> "/config") @@ ("/l" :> "/ls") @@
  ("/dir" :> "/ls") @@ ("/list" :> "/ls") @@ ("/s" :> "/save") @@
  ("/w" :> "/save") @@ ("/write" :> "/save") @@ ("/r" :> "/read") @@
  ("/cat" :> "/cat") @@ ("/show" :> "/cat") @@ ("/read" :> "/cat") @@
  ("/d" :> "/delete") @@ ("/del" :> "/delete") @@ ("/rm" :> "/delete") @@
  ("/x" :> "/run") @@ ("/exec" :> "/run") @@ ("/sh" :> "/sh") @@
  ("/$" :> "/sh") @@ ("/cmd" :> "/sh") @@ ("/shell" :> "/sh") @@
  ("/m" :> "/model") @@ ("/models" :> "/models") @@
  ("/retry" :> "/retry") @@ ("/r!" :> "/retry") @@ ("/st" :> "/status") @@
  ("/info" :> "/status") @@ ("/cd" :> "/cd") @@ ("/chdir" :> "/cd") @@
  ("/tree" :> "/tree") @@ ("/t" :> "/tree") @@ ("/add" :> "/add") @@
  ("/a" :> "/add") @@ ("/include" :> "/add") @@ ("/edit" :> "/edit") @@
  ("/ed" :> "/edit") @@ ("/vi" :> "/edit") @@ ("/vim" :> "/edit") @@
  ("/setup" :> "/setup") @@ ("/init" :> "/setup") @@
  ("/auto" :> "/auto") @@ ("/y" :> "/auto")

\* commandRegistry, config.ts:158-278: the aliases advertised for each name
commandRegistry ==
  ("/setup" :> {"/init"}) @@ ("/models" :> {"/model", "/m"}) @@
  ("/status" :> {"/st", "/info"}) @@
  ("/config" :> {"/cfg", "/settings"}) @@
  ("/ls" :> {"/l", "/dir", "/list"}) @@ ("/tree" :> {"/t"}) @@
  ("/cat" :> {"/read", "/show", "/r"}) @@ ("/add" :> {"/a", "/include"}) @@
  ("/edit" :> {"/ed", "/vi", "/vim"}) @@ ("/run" :> {"/x", "/exec"}) @@
  ("/sh" :> {"/shell", "/cmd", "/$"}) @@ ("/cd" :> {"/chdir"}) @@
  ("/clear" :> {"/c", "/cls"}) @@ ("/retry" :> {"/r!"}) @@
  ("/auto" :> {"/y"}) @@ ("/help" :> {"/h", "/?"}) @@
  ("/quit" :> {"/q", "/e", "/exit"})

\* cmd.toLowerCase()
ToLowerCase(part) == [part EXCEPT !.caps = FALSE]

\* the text typed is the key, character by character
Matches(part, key) == ~part.caps /\ part.text = key

\* resolveCommand, config.ts:123-126: commandAliases[lower] || lower
resolveCommand(part) ==
  LET lower == ToLowerCase(part)
  IN IF \E key \in DOMAIN commandAliases : Matches(lower, key)
       THEN commandAliases[lower.text]
       ELSE lower.text

\* parseCommand, config.ts:128-148
parseCommand(parts) ==
  [command |-> IF parts = <<>> THEN "" ELSE resolveCommand(parts[1]),
   args |-> IF parts = <<>> THEN <<>> ELSE Tail(parts)]

\* the case labels of the switch of handleCommand, Handler.ts:752-929
CaseLabels ==
  {"/quit", "/help", "/setup", "/models", "/model", "/status", "/config",
   "/clear", "/retry", "/auto", "/cd", "/ls", "/tree", "/cat", "/add",
   "/run", "/sh", "/edit"}

\* the branch of the switch taken for a command: /model shares the branch
\* of /models (Handler.ts:768-769), anything without a label takes default
\* (Handler.ts:929-931)
Branch(command) ==
  IF command = "/model" THEN "/models"
  ELSE IF command \in CaseLabels THEN command
  ELSE "default"

\* what is typed after the slash: the names and aliases of the registry,
\* the keys of the alias table, and a word that is neither
Words ==
  DOMAIN commandAliases \cup DOMAIN commandRegistry
    \cup UNION {commandRegistry[n] : n \in DOMAIN commandRegistry}
    \cup {"/foo"}

cmdOthers ==
  <<agentVars, clientVars, turns, handlerVars, xText, xRest, xPhase, xLast,
    stream, run>>

\* a line that starts with a slash is read, Handler.ts:1076-1080
TypeLine(w, caps, args) ==
  /\ cmd.phase = "off"
  /\ cmd' = [NoCmd EXCEPT !.phase = "typed",
                          !.parts = <<[text |-> w, caps |-> caps]>> \o args]
  /\ UNCHANGED cmdOthers

\* handleCommand(input), Handler.ts:748-935: parseCommand, then the switch
HandleCommand ==
  /\ cmd.phase = "typed"
  /\ LET parsed == parseCommand(cmd.parts)
     IN cmd' = [cmd EXCEPT !.phase = "handled",
                           !.command = parsed.command,
                           !.args = parsed.args,
                           !.branch = Branch(parsed.command)]
  /\ UNCHANGED cmdOthers

NextCmd ==
  \/ \E w \in Words, caps \in BOOLEAN,
        args \in {<<>>, <<[text |-> "f", caps |-> FALSE]>>} :
        TypeLine(w, caps, args)
  \/ HandleCommand

SpecCmd == Init /\ [][NextCmd]_vars

(***************************************************************************)
(* runCommand (tools.ts:110-193): one call.  proc is "running" until the   *)
(* process has exited, "exited" until its close event is delivered, then   *)
(* "closed".  resolutions and timedOut are history: how often resolve was  *)
(* called, and whether the process was running when timeoutMs elapsed.     *)
(***************************************************************************)
\* cleanup(), tools.ts:121-126: clearTimeout does nothing to a timer that fired
Cleanup(r) ==
  [r EXCEPT !.timeoutId = IF @ = "armed" THEN "cleared" ELSE @]

\* safeResolve(result), tools.ts:128-134
SafeResolve(r, result) ==
  IF ~r.resolved
    THEN [Cleanup(r) EXCEPT !.resolved = TRUE, !.result = result,
                            !.resolutions = @ + 1]
    ELSE r

\* the result of the close handler, tools.ts:153-159
CloseResult(r) ==
  [success |-> r.code = "0",
   output |-> IF r.stdout # "" THEN r.stdout ELSE "(no output)",
   error |-> IF r.stderr # "" THEN r.stderr ELSE "undefined"]

\* the result of the error handler and of the catch block, tools.ts:161-167,
\* 183-189
ErrorResult ==
  [success |-> FALSE, output |-> "", error |-> "Failed to run command"]

\* the result of the kill timer, tools.ts:175-179
TimeoutResult(r) ==
  [success |-> FALSE, output |-> r.stdout, error |-> "Command timed out"]

runOthers ==
  <<agentVars, clientVars, turns, handlerVars, xText, xRest, xPhase, xLast,
    stream, cmd>>

\* runCommand is called: spawn returns a process, the handlers are set and
\* the timeout is armed, tools.ts:136-181
RunStart ==
  /\ run.phase = "off"
  /\ run' = [NoRun EXCEPT !.phase = "started", !.proc = "running",
                          !.timeoutId = "armed"]
  /\ UNCHANGED runOthers

\* spawn throws, tools.ts:183-189
RunSpawnThrows ==
  /\ run.phase = "off"
  /\ run' = SafeResolve([NoRun EXCEPT !.phase = "started"], ErrorResult)
  /\ UNCHANGED runOthers

\* data on stdout, tools.ts:145-147
StdoutData ==
  /\ run.proc \in {"running", "exited"}
  /\ run.stdout = ""
  /\ run' = [run EXCEPT !.stdout = "out"]
  /\ UNCHANGED runOthers

\* data on stderr, tools.ts:149-151
StderrData ==
  /\ run.proc \in {"running", "exited"}
  /\ run.stderr = ""
  /\ run' = [run EXCEPT !.stderr = "err"]
  /\ UNCHANGED runOthers

\* the process exits: with an exit code, or, once it was sent a signal,
\* with none
ProcExit(code) ==
  /\ run.proc = "running"
  /\ code = "null" => run.signals # <<>>
  /\ run' = [run EXCEPT !.proc = "exited", !.code = code]
  /\ UNCHANGED runOthers

\* the close event, tools.ts:153-159
CloseEvent ==
  /\ run.proc = "exited"
  /\ run' = SafeResolve([run EXCEPT !.proc = "closed"], CloseResult(run))
  /\ UNCHANGED runOthers

\* the error event (the process could not be spawned or killed),
\* tools.ts:161-167
ErrorEvent ==
  /\ run.proc \in {"running", "exited"}
  /\ ~run.errored
  /\ run' = SafeResolve([run EXCEPT !.errored = TRUE], ErrorResult)
  /\ UNCHANGED runOthers

\* proc.kill(signal): the signal is sent and proc.killed set unless the
\* process has exited already
Kill(r, signal) ==
  IF r.proc = "running"
    THEN [r EXCEPT !.signals = Append(@, signal), !.killed = TRUE]
    ELSE r

\* the timeout callback, tools.ts:169-181
RunTimeout ==
  /\ run.timeoutId = "armed"
  /\ run' = IF ~run.resolved /\ run.proc # "none"
              THEN [Kill(run, "SIGTERM") EXCEPT
                      !.timeoutId = "fired", !.killTimer = "armed",
                      !.timedOut = run.proc = "running"]
              ELSE [run EXCEPT !.timeoutId = "fired"]
  /\ UNCHANGED runOthers

\* the callback of the one-second timer, tools.ts:172-180
RunKillTimer ==
  /\ run.killTimer = "armed"
  /\ LET r1 == IF ~run.resolved /\ run.proc # "none" /\ ~run.killed
                 THEN Kill(run, "SIGKILL") ELSE run
     IN run' = SafeResolve([r1 EXCEPT !.killTimer = "fired"],
                           TimeoutResult(run))
  /\ UNCHANGED runOthers

NextRun ==
  \/ RunStart
  \/ RunSpawnThrows
  \/ StdoutData
  \/ StderrData
  \/ \E code \in {"0", "1", "null"} : ProcExit(code)
  \/ CloseEvent
  \/ ErrorEvent
  \/ RunTimeout
  \/ RunKillTimer

SpecRun == Init /\ [][NextRun]_vars

(***************************************************************************)
(* Properties                                                              *)
(***************************************************************************)
\* the step in which call t ends with position p
Ends(t, p) == InFlight(t) /\ turns'[t].pc = p

\* C1: a turn (send or sendStream) that fails, after 0 or more deltas, leaves
\* the log as it was before the turn: same length, its user message removed.
C1_FailedTurnRestoresLog ==
  [][\A t \in Turns :
       Ends(t, "failed") =>
         /\ Len(conversationHistory') = Len(turns[t].before)
         /\ conversationHistory' = turns[t].before
         /\ \A i \in 1..Len(conversationHistory') :
              conversationHistory'[i].id # t]_vars

\* C1 witness: a streaming turn has failed after it had yielded deltas (they
\* carried a file block, which its extractor emitted) and the log is back to
\* the system message alone
C1_Witness ==
  \E t \in Turns :
    /\ turns[t].pc = "failed"
    /\ turns[t].kind = "stream"
    /\ \E i \in 1..Len(pendingFiles) : pendingFiles[i].turn = t
    /\ conversationHistory = <<SystemMessage>>

\* C2: a sendStream turn that ends gracefully with non-empty content grows
\* the log by exactly two entries, its user message then one assistant
\* message carrying the accumulated content.
C2_CommitAddsUserThenAssistant ==
  [][\A t \in Turns :
       (Ends(t, "ok") /\ turns[t].kind = "stream"
          /\ turns[t].fullResponse # <<>>) =>
         LET n == Len(turns[t].before)
         IN /\ Len(conversationHistory') = n + 2
            /\ SubSeq(conversationHistory', 1, n) = turns[t].before
            /\ conversationHistory'[n + 1].role = "user"
            /\ conversationHistory'[n + 1].id = t
            /\ conversationHistory'[n + 2] =
                 [role |-> "assistant", content |-> turns[t].fullResponse,
                  id |-> 0]]_vars

\* C2 witness: a streaming turn has ended gracefully after yielding the
\* scenario reply, which is now the last message of the log
C2_Witness ==
  \E t \in Turns :
    /\ turns[t].pc = "ok"
    /\ turns[t].kind = "stream"
    /\ Len(conversationHistory) >= 3
    /\ conversationHistory[Len(conversationHistory)] =
         [role |-> "assistant", content |-> HelloReply, id |-> 0]
    /\ conversationHistory[Len(conversationHistory) - 1].id = t

\* C3: a sendStream turn that ends gracefully with an empty accumulated reply
\* leaves the log as it was before the turn (its user message is removed).
C3_EmptyReplyRolledBack ==
  [][\A t \in Turns :
       (Ends(t, "ok") /\ turns[t].kind = "stream"
          /\ turns[t].fullResponse = <<>>) =>
         conversationHistory' = turns[t].before]_vars

\* system, then user, assistant, user, assistant, ... ending with an assistant
Alternates(h) ==
  /\ Len(h) >= 1
  /\ h[1].role = "system"
  /\ \A i \in 2..Len(h) :
       h[i].role = IF i % 2 = 0 THEN "user" ELSE "assistant"
  /\ Len(h) % 2 = 1

\* C4: whenever no turn is in flight, the log is the system message followed
\* by strictly alternating user / assistant messages and does not end with an
\* unanswered user message.
C4_LogAlternates == Idle => Alternates(conversationHistory)

\* filename and content of each artifact, in order
Files(fs) ==
  [i \in 1..Len(fs) |-> [filename |-> fs[i].filename, content |-> fs[i].content]]

\* what the extractor emits for a reply fed as one chunk and flushed
WholeReply(text) == flush(process(NewExtractor(0), text))

\* C5: however the reply is cut into chunks, process on each chunk followed
\* by flush yields the same artifacts, in the same order, as the whole reply
\* fed as a single chunk.
C5_SplitInvariance ==
  xPhase = "flushed" => Files(pendingFiles) = Files(WholeReply(xText))

\* C6: when the stream ends while the extractor is capturing, flush emits
\* exactly one artifact for the open block, whose content is the committed
\* body plus the held-back tail, trimmed.
C6_UnterminatedBlockEmitted ==
  [][(xPhase = "feeding" /\ xPhase' = "flushed" /\ extractor.inBlock) =>
       pendingFiles' =
         pendingFiles \o extractor.extractedFiles
           \o <<Artifact(extractor, extractor.code \o extractor.buffer)>>]_vars

\* C7: the scenario reply delivered as three chunks cut at any two offsets
\* yields exactly one artifact, hello.py with content print("hi"), and a
\* committed assistant message holding the full reply.
C7_HelloScenario ==
  [][(Ends(1, "ok") /\ turns[1].nChunks = 3
        /\ turns[1].fullResponse = HelloReply) =>
       /\ Files(offered') = <<[filename |-> HelloFile, content |-> HelloBody]>>
       /\ Len(conversationHistory') = 3
       /\ conversationHistory'[3] =
            [role |-> "assistant", content |-> HelloReply, id |-> 0]]_vars

\* C8: no artifact extracted during a turn that failed is ever in the
\* pending-file list or handed to processPendingFiles.
C8_FailedTurnYieldsNoArtifact ==
  \A t \in Turns :
    turns[t].pc = "failed" =>
      /\ \A i \in 1..Len(pendingFiles) : pendingFiles[i].turn # t
      /\ \A i \in 1..Len(offered) : offered[i].turn # t

\* C9: at no time are two requests of one client in flight with neither of
\* them cancelled.
C9_OneLiveRequest ==
  Cardinality({t \in Turns : InFlight(t) /\ ~requests[t].aborted}) <= 1

\* C10: the timer armed for one request never aborts another request.
C10_TimerAbortsOnlyOwnRequest ==
  [][\A t \in Turns, r \in Turns :
       (requests[t].timer = "armed" /\ requests'[t].timer = "fired" /\ r # t)
         => requests'[r].aborted = requests[r].aborted]_vars

\* the signal of request t was aborted by a call of agent.abort(): no timer
\* has fired and no later call has superseded the request
AbortCalledOn(t) ==
  /\ requests[t].aborted
  /\ \A r \in Turns : requests[r].timer # "fired"
  /\ \A u \in Turns : u # t => turns[u].pc = "new"

\* C11: once abort() has signalled the request of a sendStream turn in
\* flight, the turn ends with a cancellation failure, never gracefully: no
\* assistant message is committed and its user message is off the log.
C11_AbortedTurnFails ==
  [][\A t \in Turns :
       (turns[t].kind = "stream" /\ AbortCalledOn(t) /\ InFlight(t)
          /\ turns'[t].pc \in {"ok", "failed"}) =>
         /\ turns'[t].pc = "failed"
         /\ turns'[t].outcome = "abort"
         /\ Len(conversationHistory') <= Len(conversationHistory)
         /\ \A i \in 1..Len(conversationHistory') :
              conversationHistory'[i].id # t]_vars

\* C12: a sendStream turn still awaiting input when its timeout has elapsed
\* yields no further delta and does not end gracefully: it fails with the
\* abort raised by its timer and commits no assistant message, whatever it
\* had yielded before.
C12_TimedOutStreamFails ==
  [][\A t \in Turns :
       (turns[t].kind = "stream" /\ turns[t].pc = "awaiting"
          /\ requests[t].timer = "fired") =>
         /\ turns'[t].pc \in {"awaiting", "failed"}
         /\ turns'[t].pc = "failed" =>
              /\ turns'[t].outcome = "abort"
              /\ Len(conversationHistory') <= Len(conversationHistory)
              /\ \A i \in 1..Len(conversationHistory') :
                   conversationHistory'[i].id # t]_vars

\* the run of chatStream has read its body up to the end, the sentinel or a
\* line that made it throw
Finished ==
  /\ stream.call = "chatStream"
  /\ stream.phase \in {"returned", "thrown", "reported"}
  /\ stream.kind \notin {"abort", "http"}

\* the run over a 2xx response whose body is delivered as a single chunk
Whole(body) ==
  LET s1 == ReadChunk(Respond(Calling, 0, 200, body), body)
  IN IF s1.phase = "reading" THEN BodyEnd(s1) ELSE s1

\* the payload of a data line, or the line when it has no data prefix
Payload(line) ==
  LET trimmed == Trim(Utf8(line))
  IN IF StartsWith(trimmed, DataPrefix)
       THEN SliceFrom(trimmed, Len(DataPrefix) + 1) ELSE trimmed

IsDoneLine(line) == Trim(Utf8(line)) = DataPrefix \o DoneSentinel
IsErrorLine(line) == JSONParse(Payload(line)).hasError

\* the first error envelope of a body that no sentinel precedes (0 = none)
FirstError(lines) ==
  LET errs == {i \in 1..Len(lines) :
                 /\ IsErrorLine(lines[i])
                 /\ \A j \in 1..(i - 1) : ~IsDoneLine(lines[j])}
  IN IF errs = {} THEN 0 ELSE CHOOSE i \in errs : \A j \in errs : i <= j

\* C13: a body that holds an error envelope (before any sentinel) makes
\* chatStream throw the envelope's error, wherever the line stands, after
\* deltas or not, terminated by a newline or not.
C13_ErrorEnvelopeThrows ==
  (Finished /\ FirstError(Responses[stream.resp].lines) # 0) =>
    LET lines == Responses[stream.resp].lines
    IN /\ stream.kind = "protocol"
       /\ stream.err =
            [name |-> "Error",
             message |->
               ErrorText(JSONParse(Payload(lines[FirstError(lines)])))]

\* a data line whose payload is not JSON (and not the sentinel)
IsNoiseLine(line) ==
  LET trimmed == Trim(Utf8(line))
  IN /\ StartsWith(trimmed, DataPrefix)
     /\ ~IsDoneLine(line)
     /\ JSONParse(Payload(line)).syntaxError

NoiseFree(lines) == SelectSeq(lines, LAMBDA l : ~IsNoiseLine(l))

\* C14: a body with data lines that are not JSON yields the deltas, in the
\* same order, and has the outcome of the same body without those lines:
\* such a line yields nothing and never makes the stream fail.
C14_ParseNoiseSkipped ==
  (Finished /\ NoiseFree(Responses[stream.resp].lines)
                 # Responses[stream.resp].lines) =>
    LET clean == Whole(Concat(NoiseFree(Responses[stream.resp].lines)))
    IN /\ stream.deltas = clean.deltas
       /\ stream.kind = clean.kind
       /\ stream.err = clean.err

\* C14 witness: the body with a non-JSON line between two deltas was read
\* in chunks that cut a line, and chatStream returned after both deltas
C14_Witness ==
  /\ stream.phase = "returned"
  /\ stream.resp = 2
  /\ stream.carried
  /\ stream.deltas = <<<<"a">>, <<"b">>>>

\* the part of the body delivered so far, up to its last newline
CompleteLines(st) ==
  LET body == Body(st.resp)
      got == Len(body) - Len(st.rest)
      nl == {i \in 1..got : body[i] = "\n"}
  IN IF nl = {} THEN <<>>
     ELSE SubSeq(body, 1, CHOOSE i \in nl : \A j \in nl : j <= i)

\* C15: however the body is cut into network chunks, the concatenated
\* deltas and the outcome (return, or the error thrown) are those of the
\* body delivered as one chunk; between reads the buffer holds an incomplete
\* line only and the deltas are those of the complete lines delivered.
C15_ChunkingInvariance ==
  /\ Finished =>
       /\ Concat(stream.deltas) = Concat(Whole(Body(stream.resp)).deltas)
       /\ stream.kind = Whole(Body(stream.resp)).kind
       /\ stream.err = Whole(Body(stream.resp)).err
  /\ stream.phase = "reading" =>
       /\ \A i \in 1..Len(stream.buffer) : stream.buffer[i] # "\n"
       /\ stream.deltas = Whole(CompleteLines(stream)).deltas

\* C15 witness: the body with a two-byte character and CR LF was read in
\* chunks that cut a line, and chatStream returned after both deltas
C15_Witness ==
  /\ stream.phase = "returned"
  /\ stream.resp = 1
  /\ stream.carried
  /\ stream.deltas = <<<<"a">>, <<EAcute>>>>

\* C16: the prompt loop prints the retry suggestion exactly when the turn
\* failed by timeout or cancellation; a non-2xx status and an error envelope
\* are reported with their own message, whatever it says.
C16_RetryOnlyForTimeout ==
  stream.phase = "reported" =>
    /\ stream.report.retry <=> stream.kind = "abort"
    /\ stream.kind \in {"http", "protocol"} =>
         stream.report = [retry |-> FALSE, text |-> stream.err.message]

\* the assistant messages of a log, in order
Assistants(h) == SelectSeq(h, LAMBDA m : m.role = "assistant")

\* C17: in the step in which a sendStream turn fails, the one that hands the
\* error to its caller, the user message of the turn is already off the log,
\* and the log holds no assistant message beyond those it held before the
\* turn: nothing of what the turn yielded has entered it.
C17_FailureSurfacesAfterRollback ==
  [][\A t \in Turns :
       (Ends(t, "failed") /\ turns[t].kind = "stream") =>
         /\ \A i \in 1..Len(conversationHistory') :
              conversationHistory'[i].id # t
         /\ Assistants(conversationHistory') = Assistants(turns[t].before)
         /\ Assistants(conversationHistory') = Assistants(conversationHistory)
         /\ pendingUserMessage' = 0]_vars

\* C17 witness: the second turn of a session has failed on an error envelope
\* after deltas that carried a file block; the log holds the first turn only
C17_Witness ==
  /\ turns[2].pc = "failed"
  /\ turns[2].kind = "stream"
  /\ turns[2].outcome = "protocol"
  /\ \E i \in 1..Len(pendingFiles) : pendingFiles[i].turn = 2
  /\ Len(conversationHistory) = 3
  /\ conversationHistory[2].id = 1

\* C18: the assistant message a sendStream turn commits when it ends
\* gracefully is the concatenation, in order, of the deltas it has yielded;
\* a turn that has yielded nothing commits nothing.
C18_CommitIsConcatenation ==
  [][\A t \in Turns :
       (Ends(t, "ok") /\ turns[t].kind = "stream") =>
         IF turns[t].deltas = <<>>
           THEN Assistants(conversationHistory')
                  = Assistants(conversationHistory)
           ELSE /\ Len(Assistants(conversationHistory'))
                     = Len(Assistants(conversationHistory)) + 1
                /\ conversationHistory'[Len(conversationHistory')] =
                     [role |-> "assistant",
                      content |-> Concat(turns[t].deltas), id |-> 0]]_vars

\* C18 witness: a turn has ended gracefully and committed the reply that
\* stops inside its block; the block was extracted, which takes more than
\* one delta
C18_Witness ==
  \E t \in Turns :
    /\ turns[t].pc = "ok"
    /\ turns[t].kind = "stream"
    /\ conversationHistory[Len(conversationHistory)] =
         [role |-> "assistant", content |-> Concat(SubSeq(HelloPieces, 1, 3)),
          id |-> 0]
    /\ \E i \in 1..Len(offered) : offered[i].turn = t

\* C19: whatever calls of send, sendStream, abort, clearHistory and
\* updateSystemPrompt have been made, the log is not empty and its first
\* element is the system message.
C19_SystemMessageFirst ==
  /\ Len(conversationHistory) >= 1
  /\ conversationHistory[1].role = "system"

\* C20: the step of the /clear command (the only one that sets
\* isFirstMessage again) leaves the log with the system message alone and
\* nothing of the turns before it: no pending user message, no count, no
\* extracted file still pending.
C20_ClearDiscardsTurnState ==
  [][(~isFirstMessage /\ isFirstMessage') =>
       /\ conversationHistory' = <<SystemMessage>>
       /\ pendingUserMessage' = 0
       /\ conversationCount' = 0
       /\ extractor'.extractedFiles = <<>>
       /\ pendingFiles' = <<>>]_vars

C22_LogDuringStreaming ==
  \A t \in Turns :
    (InFlight(t) /\ turns[t].kind = "stream") =>
      LET n == Len(turns[t].before)
      IN /\ Len(conversationHistory) = n + 1
         /\ SubSeq(conversationHistory, 1, n) = turns[t].before
         /\ conversationHistory[n + 1].role = "user"
         /\ conversationHistory[n + 1].id = t

\* C22 witness: the second turn of a session has yielded two deltas and is
\* still streaming; the first turn is committed
C22_Witness ==
  /\ InFlight(2)
  /\ turns[2].kind = "stream"
  /\ Len(turns[2].deltas) = 2
  /\ Len(conversationHistory) = 4
  /\ conversationHistory[3].role = "assistant"


\* the number of characters of the reply fed to the extractor so far
Fed == Len(xText) - Len(xRest)

\* the first block of a reply, read off the text itself: the opening line,
\* the index of the first character of its closing fence (0 when the block is
\* never closed) and the body between the two
FirstOpen(text) == MatchOpen(text)
FirstFence(text) ==
  LET rel == IndexOfFence(SliceFrom(text, FirstOpen(text).last + 1))
  IN IF rel = 0 THEN 0 ELSE FirstOpen(text).last + rel
FirstBody(text) ==
  SubSeq(text, FirstOpen(text).last + 1, FirstFence(text) - 1)
FirstArtifact(text) ==
  [filename |-> Trim(FirstOpen(text).path),
   content |-> Trim(FirstBody(text)),
   turn |-> 0]

\* the last delta fed ended with the last character of the first closing
\* fence and carried only one or two of its characters
FenceSplit ==
  /\ xPhase = "feeding"
  /\ FirstOpen(xText).found
  /\ FirstFence(xText) # 0
  /\ Fed = FirstFence(xText) + FenceLen - 1
  /\ xLast \in 1..(FenceLen - 1)

\* C23: a closing fence whose characters arrive in two or three consecutive
\* deltas is detected when its last character arrives, and the artifact then
\* emitted holds the trimmed body before the fence, no fence character, no
\* body character lost or repeated.
C23_SplitClosingFenceDetected ==
  FenceSplit =>
    /\ extractor.extractedFiles = <<FirstArtifact(xText)>>
    /\ ~extractor.inBlock
    /\ extractor.buffer = <<>>
    /\ \A i \in 1..Len(extractor.extractedFiles[1].content) :
          extractor.extractedFiles[1].content[i] # Backtick

C23_Witness ==
  /\ FenceSplit
  /\ xText = HelloReply
  /\ xLast = 1
  /\ extractor.extractedFiles =
       <<[filename |-> HelloFile, content |-> HelloBody, turn |-> 0]>>


OpenStart(text) ==
  CHOOSE i \in 1..Len(text) :
    OpenAt(text, i) /\ \A j \in 1..(i - 1) : ~OpenAt(text, j)

\* the first opening pattern of the reply has been fed whole
OpeningFed ==
  /\ xPhase = "feeding"
  /\ FirstOpen(xText).found
  /\ Fed >= FirstOpen(xText).last

\* C25: an opening pattern of at most 200 characters is recognized once its
\* last character has been fed, however long the text before it is and
\* wherever the deltas are cut: the extractor is then capturing under the
\* path of the pattern, or has already emitted the block.
C25_OpeningWithinWindowRecognized ==
  (OpeningFed /\ FirstOpen(xText).last - OpenStart(xText) + 1 <= ScanWindow) =>
    \/ /\ extractor.inBlock
       /\ extractor.filename = Trim(FirstOpen(xText).path)
       /\ extractor.extractedFiles = <<>>
    \/ /\ extractor.extractedFiles # <<>>
       /\ extractor.extractedFiles[1].filename = Trim(FirstOpen(xText).path)

\* the opening line of LongLine, 197 characters after 230 characters of
\* text, completed by a delta of one character
C25_Witness ==
  /\ OpeningFed
  /\ xText = LongLine
  /\ OpenStart(xText) > ScanWindow
  /\ Fed = FirstOpen(xText).last
  /\ xLast = 1
  /\ extractor.inBlock
  /\ extractor.filename = LongPath

\* C26: after a process call that ends in SCANNING mode the buffer holds at
\* most 200 characters, and after a call that stays in CAPTURING mode without
\* finding a closing fence it holds at most 10.
C26_PendingBufferBounded ==
  [][(xPhase = "feeding" /\ xRest' # xRest) =>
       /\ ~extractor'.inBlock => Len(extractor'.buffer) <= ScanWindow
       /\ (/\ extractor.inBlock
           /\ extractor'.inBlock
           /\ extractor'.extractedFiles = extractor.extractedFiles) =>
            Len(extractor'.buffer) <= HoldBack]_vars

\* more than 200 characters have been scanned and the window is full
C26_Witness ==
  /\ xPhase = "feeding"
  /\ xText \in ScanTexts
  /\ ~extractor.inBlock
  /\ extractor.extractedFiles = <<>>
  /\ Fed > ScanWindow
  /\ Len(extractor.buffer) = ScanWindow


\* the contents of the data lines of a body that carry a delta, in order
RECURSIVE DeltasOf(_)
DeltasOf(lines) ==
  IF lines = <<>> THEN <<>>
  ELSE LET parsed == JSONParse(Payload(Head(lines)))
       IN (IF /\ StartsWith(Trim(Utf8(Head(lines))), DataPrefix)
              /\ parsed.content # <<>>
             THEN <<parsed.content>> ELSE <<>>) \o DeltasOf(Tail(lines))

\* the first sentinel line of a body that no error envelope precedes
\* (0 = none)
FirstDone(lines) ==
  LET dones == {i \in 1..Len(lines) :
                  /\ IsDoneLine(lines[i])
                  /\ \A j \in 1..(i - 1) : ~IsErrorLine(lines[j])}
  IN IF dones = {} THEN 0 ELSE CHOOSE i \in dones : \A j \in dones : i <= j

\* C27: a run that reads a body with a sentinel line returns gracefully and
\* has yielded the deltas of the lines before the sentinel and nothing
\* else, whatever lines follow the sentinel and however the body is cut.
C27_SentinelEndsStream ==
  (Finished /\ FirstDone(Responses[stream.resp].lines) # 0) =>
    LET lines == Responses[stream.resp].lines
    IN /\ stream.phase = "returned"
       /\ stream.kind = "none"
       /\ stream.deltas = DeltasOf(SubSeq(lines, 1, FirstDone(lines) - 1))

\* C27 witness: the body with a delta and an error envelope after the
\* sentinel was read in chunks that cut a line; chatStream returned after
\* the one delta before the sentinel
C27_Witness ==
  /\ stream.phase = "returned"
  /\ stream.resp = 12
  /\ stream.carried
  /\ stream.deltas = <<<<"a">>>>

\* the line ends with a newline
Terminated(line) == line # <<>> /\ line[Len(line)] = "\n"

Quiet ==
  /\ Idle
  /\ abortController = 0
  /\ \A t \in Turns : requests[t].timer \in {"unset", "cleared"}

\* C29: every turn of the session that has started ends (gracefully, by a
\* failure, or by the abort of its timeout); at the step that ends it no
\* call is in flight, no timer is armed and the handle is empty, so that the
\* prompt is asked again; and a turn starts only when none is in flight.
C29_TurnsTerminateAndRelease ==
  /\ \A t \in Turns : InFlight(t) ~> Quiet
  /\ [][\A t \in Turns : (InFlight(t) /\ ~InFlight(t)') => Quiet']_vars
  /\ [][\A t \in Turns : (~InFlight(t) /\ InFlight(t)') => Idle]_vars

\* a turn whose timeout fired has failed with the abort and released
\* everything
C29_Witness ==
  /\ Quiet
  /\ \E t \in Turns :
       /\ turns[t].kind = "stream"
       /\ turns[t].outcome = "abort"
       /\ requests[t].aborted
       /\ requests[t].timer = "cleared"


\* C30: while a request is in flight and not cancelled, the handle of the
\* client refers to the abort controller of that request, whatever the
\* requests it superseded have done since it started.
C30_HandleRefersToLiveRequest ==
  \A t \in Turns :
    (InFlight(t) /\ ~requests[t].aborted) => abortController = t


\* the log holds the user message of call t
HasUserMsg(h, t) == \E i \in 1..Len(h) : h[i].id = t

\* C31: when a turn fails while a later turn is in flight, its rollback
\* takes its own user message off the log and leaves the user message of
\* the other turn where it is.
C31_RollbackRemovesOwnMessage ==
  [][\A t \in Turns :
       Ends(t, "failed") =>
         /\ ~HasUserMsg(conversationHistory', t)
         /\ \A u \in Turns :
              (u # t /\ InFlight(u) /\ HasUserMsg(conversationHistory, u)) =>
                HasUserMsg(conversationHistory', u)]_vars


\* C32: in every state, every assistant message of the log stands right
\* after a user message.
C32_AssistantFollowsUser ==
  \A i \in 1..Len(conversationHistory) :
    conversationHistory[i].role = "assistant" =>
      /\ i > 1
      /\ conversationHistory[i - 1].role = "user"


\* the log g is the log h with entries added at its tail
Extends(g, h) == Len(g) >= Len(h) /\ SubSeq(g, 1, Len(h)) = h

\* the log h without the user message of call t
Without(h, t) == SelectSeq(h, LAMBDA m : m.id # t)

\* C33: the step that settles a turn, with success or with failure, leaves
\* every message of the log as it is and where it is, except that it may add
\* entries at the tail or take out the user message the turn added itself.
C33_TurnKeepsEarlierMessages ==
  [][\A t \in Turns :
       (Ends(t, "ok") \/ Ends(t, "failed")) =>
         \/ Extends(conversationHistory', conversationHistory)
         \/ conversationHistory' = Without(conversationHistory, t)]_vars


\* C34: every assistant message of the log has a content that is not empty,
\* whatever turns of send and sendStream have run, those with an empty
\* response included.
C34_AssistantContentNonEmpty ==
  \A i \in 1..Len(conversationHistory) :
    conversationHistory[i].role = "assistant" =>
      conversationHistory[i].content # <<>>


\* the artifacts emitted so far, by a closing fence or by the flush
Emitted == extractor.extractedFiles \o pendingFiles

\* C35: no artifact, emitted on a closing fence or by the flush at the end
\* of the turn, holds the fence of three backticks in its content.
C35_ArtifactHoldsNoFence ==
  \A i \in 1..Len(Emitted) : IndexOfFence(Emitted[i].content) = 0

\* the block of TickBody, whose body holds backticks and is never closed,
\* has been emitted by the flush after deltas of one or two characters
C35_Witness ==
  /\ xPhase = "flushed"
  /\ xText = TickBody
  /\ xLast \in 1..2
  /\ Len(pendingFiles) = 1
  /\ \E i \in 1..Len(pendingFiles[1].content) :
       pendingFiles[1].content[i] = Backtick


\* the step starts a turn made by the /retry command
RetryStarts(t) == turns[t].pc = "new" /\ turns'[t].retried

\* C36: the /retry command starts its turn on a log that holds the system
\* message and the last prompt only; when that turn commits, the log is
\* system, user, assistant, nothing of earlier turns; and the step that
\* settles a turn starts no other turn, a turn being started only by a
\* prompt or a command read while none is in flight.
C36_RetryStartsFromSystemMessage ==
  [][\A t \in Turns :
       /\ RetryStarts(t) =>
            conversationHistory' =
              <<SystemMessage,
                [role |-> "user",
                 content |-> <<"Project structure", lastUserMessage>>,
                 id |-> t]>>
       /\ (Ends(t, "ok") /\ turns[t].retried /\ turns[t].fullResponse # <<>>) =>
            conversationHistory' =
              <<SystemMessage,
                [role |-> "user",
                 content |-> <<"Project structure", lastUserMessage>>,
                 id |-> t],
                [role |-> "assistant", content |-> turns[t].fullResponse,
                 id |-> 0]>>
       /\ (Ends(t, "ok") \/ Ends(t, "failed")) =>
            \A u \in Turns : u # t => turns'[u] = turns[u]
       /\ (~InFlight(t) /\ InFlight(t)') => Idle]_vars

\* a turn whose reply carried a file was committed, then the /retry command
\* made a turn that was committed too: the log holds three messages
C36_Witness ==
  \E t \in Turns :
    /\ turns[t].retried
    /\ turns[t].pc = "ok"
    /\ Len(conversationHistory) = 3
    /\ conversationHistory[2].id = t
    /\ conversationHistory[3].role = "assistant"
    /\ \E i \in 1..Len(offered) : offered[i].turn < t


\* the word typed is the name n of the registry or an alias listed for it
Advertised(w, n) == w = n \/ w \in commandRegistry[n]

\* C37: a line whose first word is a name of the command registry, or an
\* alias the registry lists for that name, is dispatched to the branch of
\* that name and never to the unknown-command branch.
C37_AdvertisedAliasDispatched ==
  cmd.phase = "handled" =>
    \A n \in DOMAIN commandRegistry :
      Advertised(cmd.parts[1].text, n) => cmd.branch = n


\* C38: when the command was still running as timeoutMs elapsed, the promise
\* of runCommand is resolved once only, and with success false and the
\* error Command timed out, in whatever order the close event, the error
\* event and the one-second timer come afterwards.
C38_TimeoutResolvesWithTimeoutError ==
  (run.timedOut /\ run.resolved) =>
    /\ run.resolutions = 1
    /\ ~run.result.success
    /\ run.result.error = "Command timed out"

====
